---- MODULE Spec2Model ----
(***************************************************************************)
(* Model of the seller-apis synchroniser: seller.py (Ozon, "marketplace    *)
(* A") and market.py (Yandex Market, "marketplace B", campaigns FBS and    *)
(* DBS).  Python strings are modelled as sequences of one-character        *)
(* strings so that str(), int() and price_conversion() are computed and    *)
(* not assumed.  The Cyrillic dictionary keys of the feed rows are named   *)
(* by their meaning: Kod -> code, Kolichestvo -> quantity, Tsena -> price; *)
(* the currency suffix "rub." is written in Latin letters.                 *)
(***************************************************************************)
EXTENDS Integers, Sequences, FiniteSets, TLC

VARIABLES
    entry,           \* the function that was invoked (seller.main, market.main, ...)
    pc,              \* position inside the invoked function
    target,          \* campaign being processed: "ozon", "fbs" or "dbs"
    watch_remnants,  \* the feed rows (download_stock's result)
    catalog,         \* server side: per campaign, the products of the shop
    pageSize,        \* server side: items the server puts on one page
    changes,         \* server side: catalog changes still possible during paging
    last_id,         \* get_offer_ids: last_id (seller.py) / page (market.py)
    product_list,    \* get_offer_ids: accumulated items
    requests,        \* parity of the number of page requests made
    offer_ids,       \* the caller's offer_ids list
    stocks,          \* result of create_stocks
    prices,          \* result of create_prices
    batches,         \* list(divide(...)) not yet sent
    calls,           \* log of update-sink calls, in order
    error,           \* exception raised, "none" if none
    lst,             \* divide: argument lst
    n,               \* divide: argument n
    parts,           \* divide: list(divide(lst, n)) or the exception
    label,           \* price_conversion: argument price
    converted,       \* price_conversion: the string returned
    fetched          \* history: per campaign, the offer ids as get_offer_ids returned them

vars == <<entry, pc, target, watch_remnants, catalog, pageSize, changes, last_id,
          product_list, requests, offer_ids, stocks, prices, batches, calls,
          error, lst, n, parts, label, converted, fetched>>

(***************************************************************************)
(* Bounds of the model.                                                    *)
(***************************************************************************)
MaxLen == 4          \* divide: longest list tried
MaxN == 3            \* divide: n ranges over -MaxN..MaxN
MaxFeedRows == 2     \* reconciler: longest feed tried
MaxOffers == 2       \* reconciler: longest offer-id list tried
MaxRunFeed == 2      \* run: longest small feed
MaxRunOffers == 2    \* run: longest small catalog
MaxCatalog == 3      \* pagination: largest initial catalog
MaxPageSize == 2     \* pagination: largest server page
MaxChanges == 1      \* pagination: catalog changes during one fetch
MaxLabel == 3        \* price_conversion: longest label built from LabelChars

(***************************************************************************)
(* Program constants.                                                      *)
(***************************************************************************)
ManyStock == 100            \* stock written for the label ">10"
OzonPageLimit == 1000       \* "limit" of seller.get_product_list
MarketPageLimit == 200      \* "limit" of market.get_product_list
OzonStockBatch == 100       \* divide(stocks, 100)
OzonPriceBatch == 900       \* divide(prices, 900) in seller.main
OzonUploadPriceBatch == 1000 \* divide(prices, 1000) in seller.upload_prices
MarketStockBatch == 2000    \* divide(stocks, 2000)
MarketPriceBatch == 500     \* divide(prices, 500)

(***************************************************************************)
(* Python built-ins.                                                       *)
(***************************************************************************)
Min(a, b) == IF a < b THEN a ELSE b

Max(a, b) == IF a < b THEN b ELSE a

Digits == <<"0", "1", "2", "3", "4", "5", "6", "7", "8", "9">>

IsDigit(c) == \E d \in 1..10 : Digits[d] = c

DigitVal(c) == (CHOOSE d \in 1..10 : Digits[d] = c) - 1

\* str(k) for an int k >= 0
RECURSIVE PyStr(_)
PyStr(k) ==
    IF k < 10 THEN <<Digits[k + 1]>>
    ELSE Append(PyStr(k \div 10), Digits[(k % 10) + 1])

\* value of a non-empty digit string
RECURSIVE DigitsVal(_)
DigitsVal(s) ==
    IF Len(s) = 0 THEN 0
    ELSE 10 * DigitsVal(SubSeq(s, 1, Len(s) - 1)) + DigitVal(s[Len(s)])

\* s.strip(): leading and trailing blanks removed
RECURSIVE PyStrip(_)
PyStrip(s) ==
    IF Len(s) > 0 /\ s[1] = " " THEN PyStrip(Tail(s))
    ELSE IF Len(s) > 0 /\ s[Len(s)] = " " THEN PyStrip(SubSeq(s, 1, Len(s) - 1))
    ELSE s

\* int(s) for a str s: blanks stripped, an optional sign, then digits only;
\* anything else raises ValueError.
PyInt(s) ==
    LET t == PyStrip(s)
        signed == Len(t) > 0 /\ t[1] \in {"-", "+"}
        body == IF signed THEN Tail(t) ELSE t
        valid == Len(body) > 0 /\ \A i \in 1..Len(body) : IsDigit(body[i])
    IN  IF ~valid THEN [raised |-> "ValueError", value |-> 0]
        ELSE [raised |-> "none",
              value |-> IF signed /\ t[1] = "-" THEN 0 - DigitsVal(body)
                        ELSE DigitsVal(body)]

\* e in s, for a list s
In(e, s) == \E i \in 1..Len(s) : s[i] = e

\* s.remove(e): the first occurrence of e is removed (e is in s)
PyRemove(s, e) ==
    LET k == CHOOSE i \in 1..Len(s) : s[i] = e /\ \A j \in 1..(i - 1) : s[j] # e
    IN  SubSeq(s, 1, k - 1) \o SubSeq(s, k + 1, Len(s))

\* s[i:j] for 0 <= i <= j
PySlice(s, i, j) == SubSeq(s, i + 1, Min(j, Len(s)))

\* list(range(0, stop, step)) for stop >= 0 and step # 0: a negative step
\* counts down from 0 and is empty at once
PyRange(stop, step) ==
    IF step < 0 THEN <<>>
    ELSE [k \in 1..((stop + step - 1) \div step) |-> (k - 1) * step]

\* s.split(".")[0]: the part of s before its first "."
RECURSIVE BeforeDot(_)
BeforeDot(s) ==
    IF Len(s) = 0 \/ s[1] = "." THEN <<>>
    ELSE <<s[1]>> \o BeforeDot(Tail(s))

\* re.sub("[^0-9]", "", s)
RECURSIVE OnlyDigits(_)
OnlyDigits(s) ==
    IF Len(s) = 0 THEN <<>>
    ELSE (IF IsDigit(s[1]) THEN <<s[1]>> ELSE <<>>) \o OnlyDigits(Tail(s))

(***************************************************************************)
(* seller.py: price_conversion and divide.                                 *)
(***************************************************************************)
\* as if "," ended the integer part as "." does
RECURSIVE BeforeDotOrComma(_)
BeforeDotOrComma(s) ==
    IF Len(s) = 0 \/ s[1] \in {".", ","} THEN <<>>
    ELSE <<s[1]>> \o BeforeDotOrComma(Tail(s))

price_conversion_comma(price) == OnlyDigits(BeforeDotOrComma(price))

price_conversion(price) == OnlyDigits(BeforeDot(price))

\* list(divide(lst, n)): the generator is always consumed by list(...).
\* range(0, len(lst), 0) raises ValueError at the first next().
divide_overlapping(l, m) ==
    IF m = 0 THEN [raised |-> "ValueError", value |-> <<>>]
    ELSE LET starts == PyRange(Len(l), m)
         IN  [raised |-> "none",
              value |-> [k \in 1..Len(starts) |-> PySlice(l, starts[k], starts[k] + m + 1)]]

divide(l, m) ==
    IF m = 0 THEN [raised |-> "ValueError", value |-> <<>>]
    ELSE LET starts == PyRange(Len(l), m)
         IN  [raised |-> "none",
              value |-> [k \in 1..Len(starts) |-> PySlice(l, starts[k], starts[k] + m)]]

(***************************************************************************)
(* create_stocks (seller.py and market.py).  The loop state is the local   *)
(* list stocks, the caller's list offer_ids, which the loop changes in     *)
(* place, and the exception raised by int(), which ends the loop.          *)
(***************************************************************************)
seller_stock(offer_id, stock) == [offer_id |-> offer_id, stock |-> stock]

market_stock(offer_id, stock, warehouse_id) ==
    [sku |-> offer_id, warehouseId |-> warehouse_id, count |-> stock]

\* the if / elif / else on the quantity label
stock_of_count_one_kept(quantity) ==
    IF quantity = <<">", "1", "0">> THEN [raised |-> "none", value |-> ManyStock]
    ELSE PyInt(quantity)

stock_of_count(quantity) ==
    IF quantity = <<">", "1", "0">> THEN [raised |-> "none", value |-> ManyStock]
    ELSE IF quantity = <<"1">> THEN [raised |-> "none", value |-> 0]
    ELSE PyInt(quantity)

\* one iteration of "for watch in watch_remnants"; both files run the same
\* loop, st.stocks holds (offer id, stock) and each file wraps it in its payload
stocks_row_no_remove(st, watch) ==
    LET code == PyStr(watch.code)
        stock == stock_of_count(watch.quantity)
    IN  IF ~In(code, st.offer_ids) THEN st
        ELSE IF stock.raised # "none" THEN [st EXCEPT !.raised = stock.raised]
        ELSE [st EXCEPT !.stocks = Append(@, seller_stock(code, stock.value))]

stocks_row(st, watch) ==
    LET code == PyStr(watch.code)
        stock == stock_of_count(watch.quantity)
    IN  IF ~In(code, st.offer_ids) THEN st
        ELSE IF stock.raised # "none" THEN [st EXCEPT !.raised = stock.raised]
        ELSE [st EXCEPT !.stocks = Append(@, seller_stock(code, stock.value)),
                        !.offer_ids = PyRemove(@, code)]

\* the iterations lo..hi in order, evaluated by halves; an exception in the
\* first half ends the loop
RECURSIVE stocks_rows(_, _, _, _)
stocks_rows(st, rows, lo, hi) ==
    IF lo > hi \/ st.raised # "none" THEN st
    ELSE IF lo = hi THEN stocks_row(st, rows[lo])
    ELSE LET mid == (lo + hi) \div 2
             first == stocks_rows(st, rows, lo, mid)
         IN  IF first.raised # "none" THEN first
             ELSE stocks_rows(first, rows, mid + 1, hi)

\* "for offer_id in offer_ids: stocks.append(... 0)"
stocks_rest_reversed(st) ==
    IF st.raised # "none" THEN st
    ELSE [st EXCEPT !.stocks = @ \o [i \in 1..Len(st.offer_ids) |->
                seller_stock(st.offer_ids[Len(st.offer_ids) + 1 - i], 0)]]

stocks_rest(st) ==
    IF st.raised # "none" THEN st
    ELSE [st EXCEPT !.stocks = @ \o [i \in 1..Len(st.offer_ids) |->
                                        seller_stock(st.offer_ids[i], 0)]]

seller_create_stocks(rows, ids) ==
    stocks_rest(stocks_rows([stocks |-> <<>>, offer_ids |-> ids, raised |-> "none"],
                            rows, 1, Len(rows)))

market_create_stocks(rows, ids, warehouse_id) ==
    LET st == seller_create_stocks(rows, ids)
    IN  [st EXCEPT !.stocks = [i \in 1..Len(st.stocks) |->
            market_stock(st.stocks[i].offer_id, st.stocks[i].stock, warehouse_id)]]

(***************************************************************************)
(* create_prices (seller.py and market.py).                                *)
(***************************************************************************)
seller_price(watch) ==
    [offer_id |-> PyStr(watch.code), currency_code |-> "RUB",
     price |-> price_conversion(watch.price)]

market_price(watch) ==
    [id |-> PyStr(watch.code), currencyId |-> "RUR",
     value |-> PyInt(price_conversion(watch.price)).value]

\* the rows that pass "if str(watch.get(code)) in offer_ids"
priced_rows_all(rows, ids) == rows

priced_rows(rows, ids) ==
    LET Known(watch) == In(PyStr(watch.code), ids)
    IN  SelectSeq(rows, Known)

seller_create_prices(rows, ids) ==
    LET known == priced_rows(rows, ids)
    IN  [raised |-> "none", prices |-> [i \in 1..Len(known) |-> seller_price(known[i])]]

\* int(price_conversion(...)) raises ValueError when no digit is left
market_create_prices(rows, ids) ==
    LET known == priced_rows(rows, ids)
        bad == \E i \in 1..Len(known) :
                   PyInt(price_conversion(known[i].price)).raised # "none"
    IN  IF bad THEN [raised |-> "ValueError", prices |-> <<>>]
        ELSE [raised |-> "none",
              prices |-> [i \in 1..Len(known) |-> market_price(known[i])]]

(***************************************************************************)
(* Inputs.                                                                 *)
(***************************************************************************)
BoundedSeq(S, k) == UNION {[1..m -> S] : m \in 0..k}

\* the elements of a list
Ids(s) == {s[i] : i \in 1..Len(s)}

Targets == {"ozon", "fbs", "dbs"}

Codes == {1, 2}

\* the offer ids of the codes, and "70", which no feed row carries
OfferIdStrings == {PyStr(c) : c \in Codes} \cup {<<"7", "0">>}

\* ">10", "550.00 rub."
RowMany == [quantity |-> <<">", "1", "0">>,
            price |-> <<"5", "5", "0", ".", "0", "0", " ", "r", "u", "b", ".">>]

\* "1", "5'990.00 rub."
RowOne == [quantity |-> <<"1">>,
           price |-> <<"5", "'", "9", "9", "0", ".", "0", "0", " ", "r", "u", "b", ".">>]

\* "5", "5'990,00 rub."
RowFive == [quantity |-> <<"5">>,
            price |-> <<"5", "'", "9", "9", "0", ",", "0", "0", " ", "r", "u", "b", ".">>]

\* "-3", "12"
RowMinus == [quantity |-> <<"-", "3">>, price |-> <<"1", "2">>]

\* "", ".50": an empty quantity cell (read_excel keeps it as "") and a price
\* with nothing before the point
RowEmpty == [quantity |-> <<>>, price |-> <<".", "5", "0">>]

Row(code, kind) == [code |-> code, quantity |-> kind.quantity, price |-> kind.price]

FeedRows == {Row(c, k) : c \in Codes, k \in {RowMany, RowOne, RowFive, RowMinus, RowEmpty}}

RunFeedRows == {Row(c, k) : c \in Codes, k \in {RowMany, RowEmpty}}

NoParts == [raised |-> "pending", value |-> <<>>]

NoCatalog == [t \in Targets |-> <<>>]

\* the variables of a run, for the specifications that make no run
NoRun ==
    /\ catalog = NoCatalog /\ pageSize = 1 /\ changes = 0 /\ last_id = 0
    /\ product_list = <<>> /\ requests = 0 /\ batches = <<>> /\ calls = <<>>

NoDivide == lst = <<>> /\ n = 1 /\ parts = NoParts

priceVars == <<label, converted>>

NoPrice == label = <<>> /\ converted = <<>>

(***************************************************************************)
(* divide called on its own.                                               *)
(***************************************************************************)
InitDivide ==
    /\ entry = "divide" /\ pc = "call" /\ target = "none"
    /\ lst \in BoundedSeq(1..2, MaxLen)
    /\ n \in (0 - MaxN)..MaxN
    /\ parts = NoParts
    /\ watch_remnants = <<>> /\ offer_ids = <<>> /\ stocks = <<>> /\ prices = <<>>
    /\ error = "none" /\ fetched = NoCatalog
    /\ NoRun
    /\ NoPrice

DivideCall ==
    /\ entry = "divide" /\ pc = "call"
    /\ parts' = divide(lst, n)
    /\ pc' = IF parts'.raised = "none" THEN "returned" ELSE "raised"
    /\ error' = parts'.raised
    /\ UNCHANGED <<entry, target, watch_remnants, catalog, pageSize, changes, last_id,
                   product_list, requests, offer_ids, stocks, prices, batches, calls,
                   lst, n, fetched>>
    /\ UNCHANGED priceVars

NextDivide == DivideCall

SpecDivide == InitDivide /\ [][NextDivide]_vars

(***************************************************************************)
(* create_stocks and create_prices called on their own.                    *)
(***************************************************************************)
Warehouse(t) == IF t = "fbs" THEN "WAREHOUSE_FBS_ID" ELSE "WAREHOUSE_DBS_ID"

InitReconcile ==
    /\ entry \in {"seller.create_stocks", "market.create_stocks",
                  "seller.create_prices", "market.create_prices"}
    /\ pc = "call"
    /\ target = IF entry \in {"seller.create_stocks", "seller.create_prices"}
                THEN "ozon" ELSE "fbs"
    /\ watch_remnants \in BoundedSeq(FeedRows, MaxFeedRows)
    /\ offer_ids \in BoundedSeq(OfferIdStrings, MaxOffers)
    /\ fetched = [NoCatalog EXCEPT ![target] = offer_ids]
    /\ stocks = <<>> /\ prices = <<>> /\ error = "none"
    /\ NoRun /\ NoDivide
    /\ NoPrice

Returned(raised) == IF raised = "none" THEN "returned" ELSE "raised"

SellerCreateStocks ==
    /\ entry = "seller.create_stocks" /\ pc = "call"
    /\ LET r == seller_create_stocks(watch_remnants, offer_ids)
       IN  /\ stocks' = r.stocks
           /\ offer_ids' = r.offer_ids
           /\ error' = r.raised
           /\ pc' = Returned(r.raised)
    /\ UNCHANGED <<entry, target, watch_remnants, catalog, pageSize, changes, last_id,
                   product_list, requests, prices, batches, calls, lst, n, parts,
                   fetched>>
    /\ UNCHANGED priceVars

MarketCreateStocks ==
    /\ entry = "market.create_stocks" /\ pc = "call"
    /\ LET r == market_create_stocks(watch_remnants, offer_ids, Warehouse(target))
       IN  /\ stocks' = r.stocks
           /\ offer_ids' = r.offer_ids
           /\ error' = r.raised
           /\ pc' = Returned(r.raised)
    /\ UNCHANGED <<entry, target, watch_remnants, catalog, pageSize, changes, last_id,
                   product_list, requests, prices, batches, calls, lst, n, parts,
                   fetched>>
    /\ UNCHANGED priceVars

SellerCreatePrices ==
    /\ entry = "seller.create_prices" /\ pc = "call"
    /\ LET r == seller_create_prices(watch_remnants, offer_ids)
       IN  /\ prices' = r.prices
           /\ error' = r.raised
           /\ pc' = Returned(r.raised)
    /\ UNCHANGED <<entry, target, watch_remnants, catalog, pageSize, changes, last_id,
                   product_list, requests, offer_ids, stocks, batches, calls, lst, n,
                   parts, fetched>>
    /\ UNCHANGED priceVars

MarketCreatePrices ==
    /\ entry = "market.create_prices" /\ pc = "call"
    /\ LET r == market_create_prices(watch_remnants, offer_ids)
       IN  /\ prices' = r.prices
           /\ error' = r.raised
           /\ pc' = Returned(r.raised)
    /\ UNCHANGED <<entry, target, watch_remnants, catalog, pageSize, changes, last_id,
                   product_list, requests, offer_ids, stocks, batches, calls, lst, n,
                   parts, fetched>>
    /\ UNCHANGED priceVars

NextReconcile ==
    \/ SellerCreateStocks
    \/ MarketCreateStocks
    \/ SellerCreatePrices
    \/ MarketCreatePrices

SpecReconcile == InitReconcile /\ [][NextReconcile]_vars

(***************************************************************************)
(* The catalog page source, as get_product_list's docstrings describe it.  *)
(* A product has a server-side id, which orders the catalog, and an offer  *)
(* id.  A page holds the next products after the cursor.                   *)
(***************************************************************************)
MakeCatalog(ids) == [i \in 1..Len(ids) |-> [id |-> i, offer_id |-> ids[i]]]

PageItems(cat, after, size) ==
    LET Later(p) == p.id > after
        rest == SelectSeq(cat, Later)
    IN  SubSeq(rest, 1, Min(size, Len(rest)))

HasMore(cat, after) == \E i \in 1..Len(cat) : cat[i].id > after

\* seller.get_product_list: "items", "total", "last_id"
ozon_product_list(cat, after, size) ==
    LET items == PageItems(cat, after, Min(size, OzonPageLimit))
    IN  [items |-> items,
         total |-> Len(cat),
         last_id |-> IF Len(items) = 0 THEN after ELSE items[Len(items)].id]

\* market.get_product_list: "offerMappingEntries", "paging.nextPageToken";
\* 0 stands for the empty token
market_product_list(cat, after, size) ==
    LET items == PageItems(cat, after, Min(size, MarketPageLimit))
        last == IF Len(items) = 0 THEN after ELSE items[Len(items)].id
    IN  [offerMappingEntries |-> items,
         nextPageToken |-> IF HasMore(cat, last) THEN last ELSE 0]

\* response.raise_for_status()
raise_for_status_silent(ok) == "none"

raise_for_status(ok) == IF ok THEN "none" ELSE "HTTPError"

(***************************************************************************)
(* Control flow of the entry points.                                       *)
(***************************************************************************)
MainEntries == {"seller.main", "market.main"}

SellerEntries == {"seller.main", "seller.upload_stocks", "seller.upload_prices",
                  "seller.get_offer_ids"}

RunEntries == {"seller.main", "seller.upload_stocks", "seller.upload_prices",
               "market.main", "market.upload_stocks", "market.upload_prices"}

Campaigns(e) ==
    IF e \in SellerEntries THEN <<"ozon">>
    ELSE IF e = "market.main" THEN <<"fbs", "dbs">>
    ELSE <<"fbs">>

\* where an exception ends: main's except clauses print it, a coroutine
\* passes it to whoever awaits it
Raised(e) == IF e \in MainEntries THEN "except" ELSE "raised"

\* the statement after get_offer_ids
AfterFetch(e) ==
    IF e \in {"seller.get_offer_ids", "market.get_offer_ids"} THEN "returned"
    ELSE IF e \in {"seller.upload_prices", "market.upload_prices"} THEN "create_prices"
    ELSE "create_stocks"

\* the statement after the loop over the stock batches
AfterStocks(e) ==
    IF e = "seller.main" THEN "create_prices"
    ELSE IF e = "market.main" THEN "upload_prices"
    ELSE "returned"

\* the statement after the loop over the price batches
AfterPrices_stocks_again(e) == IF e = "seller.main" THEN "create_stocks" ELSE "returned"

AfterPrices(e) == IF e = "seller.main" THEN "done" ELSE "returned"

StockBatch(e) == IF e \in SellerEntries THEN OzonStockBatch ELSE MarketStockBatch

PriceBatch(e) ==
    IF e = "seller.main" THEN OzonPriceBatch
    ELSE IF e = "seller.upload_prices" THEN OzonUploadPriceBatch
    ELSE MarketPriceBatch

OfferIdsOf(products) == [i \in 1..Len(products) |-> products[i].offer_id]

divVars == <<lst, n, parts>>

serverVars == <<catalog, pageSize, changes>>

(***************************************************************************)
(* get_offer_ids: one iteration of "while True" per step.                  *)
(***************************************************************************)
SellerGetPage ==
    /\ pc = "get_offer_ids" /\ target = "ozon"
    /\ requests' = 1 - requests
    /\ \E ok \in BOOLEAN :
          IF raise_for_status(ok) # "none"
          THEN /\ error' = raise_for_status(ok)
               /\ pc' = Raised(entry)
               /\ UNCHANGED <<last_id, product_list, offer_ids, fetched>>
          ELSE LET some_prod == ozon_product_list(catalog[target], last_id, pageSize)
               IN  /\ product_list' = product_list \o some_prod.items
                   /\ last_id' = some_prod.last_id
                   /\ IF some_prod.total = Len(product_list')
                      THEN /\ offer_ids' = OfferIdsOf(product_list')
                           /\ fetched' = [fetched EXCEPT ![target] = offer_ids']
                           /\ pc' = AfterFetch(entry)
                      ELSE UNCHANGED <<offer_ids, fetched, pc>>
                   /\ UNCHANGED error
    /\ UNCHANGED <<entry, target, watch_remnants, stocks, prices, batches, calls>>
    /\ UNCHANGED <<divVars, serverVars>>
    /\ UNCHANGED priceVars

MarketGetPage ==
    /\ pc = "get_offer_ids" /\ target # "ozon"
    /\ requests' = 1 - requests
    /\ \E ok \in BOOLEAN :
          IF raise_for_status(ok) # "none"
          THEN /\ error' = raise_for_status(ok)
               /\ pc' = Raised(entry)
               /\ UNCHANGED <<last_id, product_list, offer_ids, fetched>>
          ELSE LET some_prod == market_product_list(catalog[target], last_id, pageSize)
               IN  /\ product_list' = product_list \o some_prod.offerMappingEntries
                   /\ last_id' = some_prod.nextPageToken
                   /\ IF last_id' = 0
                      THEN /\ offer_ids' = OfferIdsOf(product_list')
                           /\ fetched' = [fetched EXCEPT ![target] = offer_ids']
                           /\ pc' = AfterFetch(entry)
                      ELSE UNCHANGED <<offer_ids, fetched, pc>>
                   /\ UNCHANGED error
    /\ UNCHANGED <<entry, target, watch_remnants, stocks, prices, batches, calls>>
    /\ UNCHANGED <<divVars, serverVars>>
    /\ UNCHANGED priceVars

\* the shop changes while the pages are read: a product is deleted
CatalogDelete ==
    /\ pc = "get_offer_ids" /\ changes > 0
    /\ \E i \in 1..Len(catalog[target]) :
          catalog' = [catalog EXCEPT ![target] =
                         SubSeq(@, 1, i - 1) \o SubSeq(@, i + 1, Len(@))]
    /\ changes' = changes - 1
    /\ UNCHANGED <<entry, pc, target, watch_remnants, pageSize, last_id, product_list,
                   requests, offer_ids, stocks, prices, batches, calls, error, fetched>>
    /\ UNCHANGED divVars
    /\ UNCHANGED priceVars

\* ... or a product is added, after all the others
CatalogAdd ==
    /\ pc = "get_offer_ids" /\ changes > 0
    /\ LET used == {catalog[target][i].id : i \in 1..Len(catalog[target])}
                       \cup {product_list[i].id : i \in 1..Len(product_list)} \cup {0}
           fresh == 1 + CHOOSE m \in used : \A k \in used : k <= m
       IN  \E o \in OfferIdStrings :
              catalog' = [catalog EXCEPT ![target] =
                             Append(@, [id |-> fresh, offer_id |-> o])]
    /\ changes' = changes - 1
    /\ UNCHANGED <<entry, pc, target, watch_remnants, pageSize, last_id, product_list,
                   requests, offer_ids, stocks, prices, batches, calls, error, fetched>>
    /\ UNCHANGED divVars
    /\ UNCHANGED priceVars

InitFetch ==
    /\ entry \in {"seller.get_offer_ids", "market.get_offer_ids"}
    /\ pc = "get_offer_ids"
    /\ target = Campaigns(entry)[1]
    /\ \E ids \in BoundedSeq(OfferIdStrings, MaxCatalog) :
          catalog = [NoCatalog EXCEPT ![target] = MakeCatalog(ids)]
    /\ pageSize \in 1..MaxPageSize
    /\ changes \in 0..MaxChanges
    /\ last_id = 0 /\ product_list = <<>> /\ requests = 0
    /\ watch_remnants = <<>> /\ offer_ids = <<>> /\ stocks = <<>> /\ prices = <<>>
    /\ batches = <<>> /\ calls = <<>> /\ error = "none" /\ fetched = NoCatalog
    /\ NoDivide
    /\ NoPrice

NextFetch ==
    \/ SellerGetPage
    \/ MarketGetPage
    \/ CatalogDelete
    \/ CatalogAdd

SpecFetch == InitFetch /\ [][NextFetch]_vars

\* get_product_list returns or raises: the loop is never left waiting
FairSpecFetch == SpecFetch /\ WF_vars(SellerGetPage) /\ WF_vars(MarketGetPage)

(***************************************************************************)
(* The runs: seller.main, market.main and the upload_* coroutines when     *)
(* they are awaited.  A step is what runs between two network calls.       *)
(***************************************************************************)
\* the feed and the shop of the large run: 1001 rows, 2001 products
BigFeed == [i \in 1..(OzonUploadPriceBatch + 1) |-> Row(i, RowMany)]

BigCatalog == MakeCatalog([i \in 1..(MarketStockBatch + 1) |-> PyStr(i)])

RunOfferIds == {PyStr(c) : c \in Codes}

InitRun ==
    /\ entry \in RunEntries
    /\ target = Campaigns(entry)[1]
    /\ pc = "get_offer_ids"
    /\ \/ /\ watch_remnants \in BoundedSeq(RunFeedRows, MaxRunFeed)
          /\ \E shops \in [Ids(Campaigns(entry)) -> BoundedSeq(RunOfferIds, MaxRunOffers)] :
                catalog = [t \in Targets |->
                              IF t \in DOMAIN shops THEN MakeCatalog(shops[t]) ELSE <<>>]
       \/ /\ watch_remnants = BigFeed
          /\ catalog = [t \in Targets |->
                           IF t \in Ids(Campaigns(entry)) THEN BigCatalog ELSE <<>>]
    /\ pageSize = Max(OzonPageLimit, MarketPageLimit)
    /\ changes = 0
    /\ last_id = 0 /\ product_list = <<>> /\ requests = 0
    /\ offer_ids = <<>> /\ stocks = <<>> /\ prices = <<>>
    /\ batches = <<>> /\ calls = <<>> /\ error = "none" /\ fetched = NoCatalog
    /\ NoDivide
    /\ NoPrice

\* stocks = create_stocks(...); list(divide(stocks, limit))
BuildStocks ==
    /\ pc = "create_stocks"
    /\ LET r == IF entry \in SellerEntries
                THEN seller_create_stocks(watch_remnants, offer_ids)
                ELSE market_create_stocks(watch_remnants, offer_ids, Warehouse(target))
           d == divide(r.stocks, StockBatch(entry))
       IN  /\ offer_ids' = r.offer_ids
           /\ IF r.raised # "none"
              THEN /\ error' = r.raised
                   /\ pc' = Raised(entry)
                   /\ UNCHANGED <<stocks, batches>>
              ELSE /\ stocks' = r.stocks
                   /\ batches' = d.value
                   /\ pc' = IF Len(d.value) = 0 THEN AfterStocks(entry) ELSE "update_stocks"
                   /\ UNCHANGED error
    /\ UNCHANGED <<entry, target, watch_remnants, last_id, product_list, requests,
                   prices, calls, fetched>>
    /\ UNCHANGED <<divVars, serverVars>>
    /\ UNCHANGED priceVars

\* update_stocks(some_stock, ...): one iteration of the for loop
SendStocks ==
    /\ pc = "update_stocks"
    /\ \E ok \in BOOLEAN :
          /\ calls' = Append(calls, [campaign |-> target, kind |-> "stocks",
                                     batch |-> Head(batches), ok |-> ok])
          /\ IF raise_for_status(ok) # "none"
             THEN /\ error' = raise_for_status(ok)
                  /\ pc' = Raised(entry)
                  /\ UNCHANGED batches
             ELSE /\ batches' = Tail(batches)
                  /\ pc' = IF Len(batches) = 1 THEN AfterStocks(entry) ELSE pc
                  /\ UNCHANGED error
    /\ UNCHANGED <<entry, target, watch_remnants, last_id, product_list, requests,
                   offer_ids, stocks, prices, fetched>>
    /\ UNCHANGED <<divVars, serverVars>>
    /\ UNCHANGED priceVars

\* prices = create_prices(...); list(divide(prices, limit))
BuildPrices ==
    /\ pc = "create_prices"
    /\ LET r == IF entry \in SellerEntries
                THEN seller_create_prices(watch_remnants, offer_ids)
                ELSE market_create_prices(watch_remnants, offer_ids)
           d == divide(r.prices, PriceBatch(entry))
       IN  IF r.raised # "none"
           THEN /\ error' = r.raised
                /\ pc' = Raised(entry)
                /\ UNCHANGED <<prices, batches>>
           ELSE /\ prices' = r.prices
                /\ batches' = d.value
                /\ pc' = IF Len(d.value) = 0 THEN AfterPrices(entry) ELSE "update_price"
                /\ UNCHANGED error
    /\ UNCHANGED <<entry, target, watch_remnants, last_id, product_list, requests,
                   offer_ids, stocks, calls, fetched>>
    /\ UNCHANGED <<divVars, serverVars>>
    /\ UNCHANGED priceVars

\* update_price(some_price, ...): one iteration of the for loop
SendPrices ==
    /\ pc = "update_price"
    /\ \E ok \in BOOLEAN :
          /\ calls' = Append(calls, [campaign |-> target, kind |-> "prices",
                                     batch |-> Head(batches), ok |-> ok])
          /\ IF raise_for_status(ok) # "none"
             THEN /\ error' = raise_for_status(ok)
                  /\ pc' = Raised(entry)
                  /\ UNCHANGED batches
             ELSE /\ batches' = Tail(batches)
                  /\ pc' = IF Len(batches) = 1 THEN AfterPrices(entry) ELSE pc
                  /\ UNCHANGED error
    /\ UNCHANGED <<entry, target, watch_remnants, last_id, product_list, requests,
                   offer_ids, stocks, prices, fetched>>
    /\ UNCHANGED <<divVars, serverVars>>
    /\ UNCHANGED priceVars

\* market.main: "upload_prices(watch_remnants, campaign, market_token)".
\* upload_prices is an "async def" and the call is not awaited: it makes a
\* coroutine object whose body never runs.  main goes on to the next
\* campaign, or ends.
CallUploadPrices ==
    /\ pc = "upload_prices"
    /\ IF target = "fbs"
       THEN /\ target' = "dbs"
            /\ pc' = "get_offer_ids"
            /\ last_id' = 0
            /\ product_list' = <<>>
       ELSE /\ pc' = "done"
            /\ UNCHANGED <<target, last_id, product_list>>
    /\ UNCHANGED <<entry, watch_remnants, requests, offer_ids, stocks, prices, batches,
                   calls, error, fetched>>
    /\ UNCHANGED <<divVars, serverVars>>
    /\ UNCHANGED priceVars

NextRun ==
    \/ SellerGetPage
    \/ MarketGetPage
    \/ BuildStocks
    \/ SendStocks
    \/ BuildPrices
    \/ SendPrices
    \/ CallUploadPrices

SpecRun == InitRun /\ [][NextRun]_vars

(***************************************************************************)
(* Reading a payload, whichever file built it.                             *)
(***************************************************************************)
StockId(u) == IF "sku" \in DOMAIN u THEN u.sku ELSE u.offer_id

StockCount(u) == IF "sku" \in DOMAIN u THEN u.count ELSE u.stock

PriceId(u) == IF "id" \in DOMAIN u THEN u.id ELSE u.offer_id

Original == fetched[target]

StocksReturned ==
    entry \in {"seller.create_stocks", "market.create_stocks"} /\ pc = "returned"

PricesReturned ==
    entry \in {"seller.create_prices", "market.create_prices"} /\ pc = "returned"

RECURSIVE Flatten(_)
Flatten(ss) == IF Len(ss) = 0 THEN <<>> ELSE Head(ss) \o Flatten(Tail(ss))

RowsOf(code) == {j \in 1..Len(watch_remnants) : PyStr(watch_remnants[j].code) = code}

(***************************************************************************)
(* C1.  create_stocks returns exactly one StockUpdate per fetched offer    *)
(* id: the ids of the result are the fetched ids, and none appears twice,  *)
(* also when the feed repeats a code or the fetched list repeats an id.    *)
(***************************************************************************)
C1_OneStockUpdatePerOffer ==
    StocksReturned =>
        /\ {StockId(stocks[i]) : i \in 1..Len(stocks)} = Ids(Original)
        /\ \A i, j \in 1..Len(stocks) :
               StockId(stocks[i]) = StockId(stocks[j]) => i = j

(***************************************************************************)
(* C4.  Count resolution of create_stocks: a feed row that claims an offer *)
(* gives 100 for ">10", 0 for "1" and the integer value of any other       *)
(* label; the offers left unclaimed close the result with count 0.         *)
(***************************************************************************)
C4_Expected(quantity) ==
    IF quantity = <<">", "1", "0">> THEN 100
    ELSE IF quantity = <<"1">> THEN 0
    ELSE PyInt(quantity).value

C4_CountResolution ==
    StocksReturned =>
        LET m == Len(stocks) - Len(offer_ids)
        IN  /\ m >= 0
            /\ \A i \in 1..Len(offer_ids) :
                   /\ StockId(stocks[m + i]) = offer_ids[i]
                   /\ StockCount(stocks[m + i]) = 0
            /\ \A i \in 1..m : \E j \in RowsOf(StockId(stocks[i])) :
                   StockCount(stocks[i]) = C4_Expected(watch_remnants[j].quantity)
            /\ \A j \in 1..Len(watch_remnants) :
                   LET code == PyStr(watch_remnants[j].code)
                   IN  (In(code, Original) /\ \A k \in RowsOf(code) : k >= j)
                       => \E i \in 1..m :
                              /\ StockId(stocks[i]) = code
                              /\ StockCount(stocks[i]) =
                                     C4_Expected(watch_remnants[j].quantity)

C4_Witness ==
    /\ StocksReturned
    /\ Len(offer_ids) > 0
    /\ Len(stocks) = 2
    /\ StockCount(stocks[1]) = 0
    /\ \E k \in RowsOf(StockId(stocks[1])) : watch_remnants[k].quantity = <<"1">>
    /\ RowsOf(StockId(stocks[2])) = {}

(***************************************************************************)
(* C5.  create_prices emits a PriceUpdate only for offer ids that are in   *)
(* the feed and in the offer-id list: one per feed row whose code is in    *)
(* the list; a row whose code is not in the list gives no output and no    *)
(* error.                                                                  *)
(***************************************************************************)
C5_KnownRows == {j \in 1..Len(watch_remnants) :
                    In(PyStr(watch_remnants[j].code), offer_ids)}

C5_PricesOnlyForKnownOffers ==
    (entry \in {"seller.create_prices", "market.create_prices"} /\ pc # "call") =>
        /\ pc = "returned" =>
               /\ Len(prices) = Cardinality(C5_KnownRows)
               /\ \A i \in 1..Len(prices) :
                      /\ In(PriceId(prices[i]), offer_ids)
                      /\ RowsOf(PriceId(prices[i])) # {}
        /\ pc = "raised" =>
               \E j \in C5_KnownRows :
                   \A i \in 1..Len(BeforeDot(watch_remnants[j].price)) :
                       ~IsDigit(BeforeDot(watch_remnants[j].price)[i])

C5_Witness ==
    /\ PricesReturned
    /\ Len(prices) = 1
    /\ Len(watch_remnants) = 2
    /\ \E id \in Ids(offer_ids) : RowsOf(id) = {}

(***************************************************************************)
(* C6.  For n > 0 the chunks of divide, concatenated in order, are the     *)
(* list; every chunk has 1..n elements, only the last may have fewer than  *)
(* n, and the empty list gives no chunk.                                   *)
(***************************************************************************)
C6_ChunksPartition ==
    (entry = "divide" /\ pc # "call" /\ n > 0) =>
        /\ pc = "returned"
        /\ Flatten(parts.value) = lst
        /\ \A k \in 1..Len(parts.value) :
               /\ Len(parts.value[k]) >= 1
               /\ Len(parts.value[k]) <= n
               /\ k < Len(parts.value) => Len(parts.value[k]) = n
        /\ lst = <<>> => parts.value = <<>>

C6_Witness ==
    /\ entry = "divide" /\ pc = "returned" /\ n = 2
    /\ Len(parts.value) = 2
    /\ Len(parts.value[2]) = 1

(***************************************************************************)
(* C10.  divide fails with an error for every n <= 0, whatever the list.   *)
(***************************************************************************)
C10_NonPositiveSizeFails ==
    (entry = "divide" /\ pc # "call" /\ n <= 0) => pc = "raised"

(***************************************************************************)
(* Reading the log of sink calls.                                          *)
(***************************************************************************)
Ceil(a, b) == (a + b - 1) \div b

CallsOf(t, kind) ==
    LET Mine(c) == c.campaign = t /\ c.kind = kind
    IN  SelectSeq(calls, Mine)

BatchesOf(t, kind) == [i \in 1..Len(CallsOf(t, kind)) |-> CallsOf(t, kind)[i].batch]

RunDone == entry \in MainEntries /\ pc = "done" /\ error = "none"

\* the stock updates of campaign t: create_stocks on the feed and the offer
\* ids fetched for t
StockUpdatesOf(t) ==
    IF t = "ozon" THEN seller_create_stocks(watch_remnants, fetched[t]).stocks
    ELSE market_create_stocks(watch_remnants, fetched[t], Warehouse(t)).stocks

\* the price updates of campaign t: the list seller.main builds; market.main
\* builds none itself and hands the campaign to upload_prices, whose list is
\* create_prices on the feed and the offer ids of t
PriceUpdatesOf(t) ==
    IF t = "ozon" THEN prices
    ELSE market_create_prices(watch_remnants, fetched[t]).prices

(***************************************************************************)
(* C2.  In a sync run the price build works on the offer ids as fetched,   *)
(* whatever the stock build removed: once the run is through, there is a   *)
(* PriceUpdate for every feed row whose code is among the fetched ids.     *)
(***************************************************************************)
C2_PricesForFetchedOffers ==
    RunDone =>
        \A j \in 1..Len(watch_remnants) :
            In(PyStr(watch_remnants[j].code), fetched[target])
            => \E i \in 1..Len(prices) :
                   PriceId(prices[i]) = PyStr(watch_remnants[j].code)

(***************************************************************************)
(* C3.  In a run without failure, for every campaign, the stock sink is    *)
(* called ceil(stock updates / stock batch limit) times and the price sink *)
(* ceil(price updates / price batch limit) times, the batches being the    *)
(* update list cut in order.                                               *)
(***************************************************************************)
C3_SinkCallsPerCampaign ==
    RunDone =>
        \A t \in Ids(Campaigns(entry)) :
            /\ Len(CallsOf(t, "stocks")) = Ceil(Len(StockUpdatesOf(t)), StockBatch(entry))
            /\ Flatten(BatchesOf(t, "stocks")) = StockUpdatesOf(t)
            /\ Len(CallsOf(t, "prices")) = Ceil(Len(PriceUpdatesOf(t)), PriceBatch(entry))
            /\ Flatten(BatchesOf(t, "prices")) = PriceUpdatesOf(t)

(***************************************************************************)
(* C7.  Every batch handed to an update sink is non-empty and within the   *)
(* marketplace's ceiling, on every path that sends batches: Ozon 100       *)
(* stocks and 900 prices, Yandex Market 2000 stocks and 500 prices.        *)
(***************************************************************************)
C7_Ceiling(c) ==
    IF c.campaign = "ozon" THEN (IF c.kind = "stocks" THEN 100 ELSE 900)
    ELSE (IF c.kind = "stocks" THEN 2000 ELSE 500)

C7_BatchesWithinCeiling ==
    \A i \in 1..Len(calls) :
        /\ Len(calls[i].batch) >= 1
        /\ Len(calls[i].batch) <= C7_Ceiling(calls[i])

(***************************************************************************)
(* C9.  When a sink call fails on batch k, the k-1 batches before it stay  *)
(* applied, the failing batch is not sent again, no later batch is sent    *)
(* (for market.main none of the second campaign either), and the           *)
(* exception arrives at the top of the run.                                *)
(***************************************************************************)
SinkFailed == \E i \in 1..Len(calls) : ~calls[i].ok

C9_FailureStopsTheRun ==
    /\ [](SinkFailed =>
            /\ ~calls[Len(calls)].ok
            /\ \A i \in 1..(Len(calls) - 1) : calls[i].ok
            /\ error = "HTTPError"
            /\ pc = Raised(entry))
    /\ [][/\ Len(calls') \in {Len(calls), Len(calls) + 1}
          /\ SubSeq(calls', 1, Len(calls)) = calls
          /\ SinkFailed => calls' = calls]_vars

C9_Witness ==
    /\ entry = "market.main" /\ target = "fbs"
    /\ Len(calls) = 2
    /\ calls[1].ok /\ ~calls[2].ok
    /\ Len(catalog["dbs"]) > 0

(***************************************************************************)
(* C8.  get_offer_ids always stops asking for pages: market.py at the      *)
(* first empty nextPageToken, seller.py when the accumulated count equals  *)
(* the reported total, also when the total changes between pages or the    *)
(* accumulated count passes it.                                            *)
(***************************************************************************)
C8_FetchReturns == <>(pc # "get_offer_ids")

(***************************************************************************)
(* C11.  Every count create_stocks returns is a non-negative integer: 0,   *)
(* 100, or a non-negative integer quantity of the feed; no label that      *)
(* int() accepts gives a negative count.                                   *)
(***************************************************************************)
C11_FeedQuantities ==
    {PyInt(watch_remnants[j].quantity).value : j \in 1..Len(watch_remnants)}

C11_CountsNonNegative ==
    StocksReturned =>
        \A i \in 1..Len(stocks) :
            /\ StockCount(stocks[i]) \in Nat
            /\ StockCount(stocks[i]) \in {0, 100} \cup C11_FeedQuantities

(***************************************************************************)
(* C12.  The list create_stocks returns is ordered: first the updates of   *)
(* the feed rows that matched an offer, in feed order, then the updates of *)
(* the entries of the original offer-id list that no row claimed, in the   *)
(* order of that list, and nothing else.                                   *)
(***************************************************************************)
\* the k-th smallest element of a set of positions
C12_Nth(S, k) == CHOOSE x \in S : Cardinality({y \in S : y <= x}) = k

\* the feed rows that find their code in the list: each match uses up one
\* entry, so row j matches while fewer rows before it carry its code than
\* the list has entries of it
C12_MatchedRows ==
    {j \in 1..Len(watch_remnants) :
        Cardinality({k \in RowsOf(PyStr(watch_remnants[j].code)) : k < j})
            < Cardinality({p \in 1..Len(Original) :
                              Original[p] = PyStr(watch_remnants[j].code)})}

\* the entries of the original list that no row claimed
C12_UnclaimedEntries ==
    {p \in 1..Len(Original) :
        Cardinality({q \in 1..p : Original[q] = Original[p]})
            > Cardinality(RowsOf(Original[p]))}

C12_ExpectedIds ==
    [k \in 1..Cardinality(C12_MatchedRows) |->
        PyStr(watch_remnants[C12_Nth(C12_MatchedRows, k)].code)]
    \o [k \in 1..Cardinality(C12_UnclaimedEntries) |->
           Original[C12_Nth(C12_UnclaimedEntries, k)]]

C12_ResultOrder ==
    StocksReturned =>
        [i \in 1..Len(stocks) |-> StockId(stocks[i])] = C12_ExpectedIds

\* a matched offer that stood last in the list comes first in the result
C12_Witness ==
    /\ StocksReturned
    /\ Len(Original) = 2 /\ Original[1] # Original[2]
    /\ Len(stocks) = 2
    /\ StockId(stocks[1]) = Original[2]
    /\ StockId(stocks[2]) = Original[1]
    /\ C12_MatchedRows # {} /\ C12_UnclaimedEntries = {1}

(***************************************************************************)
(* C13.  A run acts in order: no sink call is made for a campaign while    *)
(* its catalog is still being fetched, every stock batch of a campaign is  *)
(* sent before its first price batch, and in market.main every call for    *)
(* FBS is made before every call for DBS.                                  *)
(***************************************************************************)
C13_RunInOrder ==
    /\ [](/\ pc = "get_offer_ids" =>
                \A i \in 1..Len(calls) : calls[i].campaign # target
          /\ \A i, j \in 1..Len(calls) :
                (i < j /\ calls[i].campaign = calls[j].campaign)
                    => ~(calls[i].kind = "prices" /\ calls[j].kind = "stocks")
          /\ \A i, j \in 1..Len(calls) :
                i < j => ~(calls[i].campaign = "dbs" /\ calls[j].campaign = "fbs"))
    /\ [][calls' # calls =>
             /\ pc # "get_offer_ids"
             /\ calls' = Append(calls, calls'[Len(calls')])
             /\ calls'[Len(calls')].campaign = target]_vars

\* seller.main has sent a stock batch and then a price batch
C13_Witness ==
    /\ entry = "seller.main"
    /\ Len(calls) >= 2
    /\ calls[1].kind = "stocks"
    /\ calls[Len(calls)].kind = "prices"

(***************************************************************************)
(* price_conversion called on its own, on the labels of the docstrings and *)
(* on every short label over digits, separators and a blank.               *)
(***************************************************************************)
LabelChars == {"5", "0", ".", ",", "'", " "}

DocLabels == {RowMany.price, RowOne.price, RowFive.price, RowMinus.price, RowEmpty.price}

InitPrice ==
    /\ entry = "price_conversion" /\ pc = "call" /\ target = "none"
    /\ label \in BoundedSeq(LabelChars, MaxLabel) \cup DocLabels
    /\ converted = <<>>
    /\ watch_remnants = <<>> /\ offer_ids = <<>> /\ stocks = <<>> /\ prices = <<>>
    /\ error = "none" /\ fetched = NoCatalog
    /\ NoRun /\ NoDivide

PriceConversionCall ==
    /\ entry = "price_conversion" /\ pc = "call"
    /\ converted' = price_conversion(label)
    /\ pc' = "returned"
    /\ UNCHANGED <<entry, target, watch_remnants, catalog, pageSize, changes, last_id,
                   product_list, requests, offer_ids, stocks, prices, batches, calls,
                   error, lst, n, parts, label, fetched>>

NextPrice == PriceConversionCall

SpecPrice == InitPrice /\ [][NextPrice]_vars

(***************************************************************************)
(* C14.  price_conversion returns exactly the digits of the part of the    *)
(* label before its first ".", in their order, every other character       *)
(* removed; a "," does not end that part, so the digits after it are kept: *)
(* "5'990.00 rub." gives "5990" and "5'990,00 rub." gives "599000".        *)
(***************************************************************************)
\* the length of the part before the first "."
C14_Cut ==
    IF \E i \in 1..Len(label) : label[i] = "."
    THEN (CHOOSE i \in 1..Len(label) :
              label[i] = "." /\ \A k \in 1..(i - 1) : label[k] # ".") - 1
    ELSE Len(label)

C14_DigitPositions ==
    {i \in 1..C14_Cut : label[i] \in {"0", "1", "2", "3", "4", "5", "6", "7", "8", "9"}}

C14_DigitsBeforeFirstDot ==
    (entry = "price_conversion" /\ pc = "returned") =>
        /\ Len(converted) = Cardinality(C14_DigitPositions)
        /\ \A i \in C14_DigitPositions :
               converted[Cardinality({k \in C14_DigitPositions : k <= i})] = label[i]
        /\ label = RowOne.price => converted = <<"5", "9", "9", "0">>
        /\ label = RowFive.price => converted = <<"5", "9", "9", "0", "0", "0">>

C14_Witness ==
    /\ entry = "price_conversion" /\ pc = "returned"
    /\ label = RowFive.price
    /\ converted = <<"5", "9", "9", "0", "0", "0">>

(***************************************************************************)
(* C15.  create_stocks consumes the caller's offer-id list in place: each  *)
(* matched feed row removes exactly one occurrence of its code, the result *)
(* has as many updates as the list had entries at call time, and on return *)
(* the caller's list holds exactly the entries that no feed row claimed.   *)
(***************************************************************************)
C15_Occurrences(s, id) == Cardinality({p \in 1..Len(s) : s[p] = id})

C15_CallersListConsumed ==
    StocksReturned =>
        /\ Len(stocks) = Len(Original)
        /\ Len(Original) - Len(offer_ids) = Cardinality(C12_MatchedRows)
        /\ \A id \in Ids(Original) :
               C15_Occurrences(Original, id) - C15_Occurrences(offer_ids, id)
                   = Cardinality({j \in C12_MatchedRows :
                                     PyStr(watch_remnants[j].code) = id})
        /\ offer_ids = [k \in 1..Cardinality(C12_UnclaimedEntries) |->
                           Original[C12_Nth(C12_UnclaimedEntries, k)]]

\* one of two entries was claimed and is gone from the caller's list
C15_Witness ==
    /\ StocksReturned
    /\ Len(Original) = 2
    /\ Len(stocks) = 2
    /\ Cardinality(C12_MatchedRows) = 1
    /\ offer_ids = <<Original[1]>>

====
